---- MODULE Spec2Model ----
(***************************************************************************)
(* Model of SAR_Training/English/Hazards/Prepare_RTC_Stack_HyP3_v2.ipynb:  *)
(* the cells that collect the tiffs of the selected polarization, bring    *)
(* them into one coordinate system (gdalwarp), merge the frames of one     *)
(* acquisition date (gdal_merge.py), verify the result and move the tiffs  *)
(* to the tiffs directory.  The notebook cells run top to bottom; one      *)
(* action models one cell, or one iteration of a cell's loop around an     *)
(* external command.                                                       *)
(*                                                                         *)
(* A path "rtc_products/<product>/<pre><product>_<pol>.tif" is the record  *)
(* [product, pre, pol]; pre is the sequence of prefixes ("r", "new") the   *)
(* notebook has put in front of the tiff name.  A file on disk is a path   *)
(* with the authority and code of its coordinate system and the set of     *)
(* downloaded tiffs its pixels come from.  A coordinate code is the string *)
(* gdal.Info reports, kept as its sequence of digits.                      *)
(***************************************************************************)
EXTENDS Integers, Sequences, FiniteSets, TLC

\* ------------------------------------------------------------- bounds
MaxProducts == 3
MaxDates == 2
MaxFailures == 1
MaxRuns == 2

Products == 1..MaxProducts
Dates == 1..MaxDates

\* ---------------------------------------------------- input alphabets
Z10 == <<3, 2, 6, 1, 0>>
Z11 == <<3, 2, 6, 1, 1>>
Z4326 == <<4, 3, 2, 6>>
ZoneCodes == {Z10, Z11, Z4326}
Authorities == {"EPSG", "ESRI"}
TxLetters == {"V", "H"}
CoordChoices == {"UTM", "Lat/Long"}

\* the two channels a transmit letter has: co-polarized and cross-polarized
CoPol(tx) == IF tx = "V" THEN "VV" ELSE "HH"
CrossPol(tx) == IF tx = "V" THEN "VH" ELSE "HV"
\* channels a downloaded product holds: single-pol (SV/SH) or dual-pol (DV/DH)
ProductPolSets(tx) == {{CoPol(tx)}, {CoPol(tx), CrossPol(tx)}}

VARIABLES
    pc,                 \* the cell that runs next
    prodDate,           \* product -> acquisition date in its name
    polarization,       \* polarization_choice.value, as its words
    coord_choice,       \* coord_choice.value
    disk,               \* files under rtc_products
    disk0,              \* the files unzipped from the downloads
    tiff_paths,
    utm_zones,
    utm_types,
    predominant_utm,
    reproject_indicies,
    rk,                 \* position of the reprojection loop
    dates,
    dup_date_batches,
    polar_list,
    mdone,              \* <<batch, date>> entries the merge loop has processed
    merge_in,           \* disk when the merge cells started (this run)
    runs,               \* how often the merge cells have been run
    warpLog,            \* gdalwarp calls made, in order
    mergeLog,           \* gdal_merge.py calls made
    messages,           \* what the verification cell printed (last run)
    tiffs,              \* file names in the tiffs directory
    rtc_exists          \* rtc_products directory exists

vars == <<pc, prodDate, polarization, coord_choice, disk, disk0, tiff_paths,
          utm_zones, utm_types, predominant_utm, reproject_indicies, rk,
          dates, dup_date_batches, polar_list, mdone, merge_in, runs,
          warpLog, mergeLog, messages, tiffs, rtc_exists>>

\* --------------------------------------------------------- sequences
Range(s) == {s[i] : i \in DOMAIN s}

RECURSIVE Count(_, _)
Count(s, x) ==
    IF s = <<>> THEN 0
    ELSE (IF Head(s) = x THEN 1 ELSE 0) + Count(Tail(s), x)

\* Python's str comparison on digit strings: lexicographic, a proper prefix first
RECURSIVE StrLess(_, _)
StrLess(a, b) ==
    IF b = <<>> THEN FALSE
    ELSE IF a = <<>> THEN TRUE
    ELSE IF Head(a) # Head(b) THEN Head(a) < Head(b)
    ELSE StrLess(Tail(a), Tail(b))

\* ------------------------------------------------------ polarization
\* len(polarization): a single channel is two characters long
PolarizationLen(pol) == IF Len(pol) = 1 THEN 2 ELSE 9
\* polarization[0]
FirstLetter(pol) == IF pol[1] \in {"VV", "VH"} THEN "V" ELSE "H"
dbl_polar == PolarizationLen(polarization) # 2
\* the regex of the selected polarization: one channel, or a transmit letter
\* followed by either receive letter
regex ==
    IF PolarizationLen(polarization) = 2
    THEN [kind |-> "channel", pol |-> polarization[1]]
    ELSE [kind |-> "transmit", tx |-> FirstLetter(polarization)]
\* the glob pattern rtc_products/*/*<letter>*.tif*
tiff_pth == [letter |-> FirstLetter(polarization), suffix |-> ""]

\* re.search(rx, pth) on a path ending in _<pol>.tif
RegexMatch(rx, pth) ==
    IF rx.kind = "channel" THEN pth.pol = rx.pol
    ELSE pth.pol \in {CoPol(rx.tx), CrossPol(rx.tx)}

\* characters of the tiff name that a glob letter can match: the product name
\* holds the transmit letter (S1A_IW_..._DVP_... / _DHP_...), the tail the channel
NameLetters(pth) ==
    {IF pth.pol \in {"VV", "VH"} THEN "V" ELSE "H"}
        \cup {"V" : x \in {pth.pol} \cap {"VV", "VH", "HV"}}
        \cup {"H" : x \in {pth.pol} \cap {"HH", "VH", "HV"}}
\* glob match of rtc_products/*/*<letter>*.tif* or rtc_products/*/*<suffix>.tif*
GlobMatch(pat, pth) ==
    IF pat.suffix = "" THEN pat.letter \in NameLetters(pth)
    ELSE pth.pol = pat.suffix

\* listing order of glob.glob: by product directory, then by name
PathBefore(p, q) ==
    \/ p.product < q.product
    \/ p.product = q.product /\ p.pol # q.pol
         /\ p.pol \in {"VV", "HH"}
    \/ p.product = q.product /\ p.pol = q.pol /\ Len(p.pre) < Len(q.pre)

RECURSIVE Listing(_)
Listing(S) ==
    IF S = {} THEN <<>>
    ELSE LET first == CHOOSE p \in S : \A q \in S \ {p} : ~PathBefore(q, p)
         IN <<first>> \o Listing(S \ {first})

PathsOn(d) == {f.path : f \in d}
FileAt(d, pth) == CHOOSE f \in d : f.path = pth

get_tiff_paths(rx, pat, d) ==
    Listing({p \in PathsOn(d) : GlobMatch(pat, p) /\ RegexMatch(rx, p)})

\* asfn.date_from_product_name(pth).split('T')[0]: the first date in the path,
\* which is the one in the product directory's name
DateOf(pth) == prodDate[pth.product]
get_dates(paths) == [i \in DOMAIN paths |-> DateOf(paths[i])]

\* ------------------------------------------------------- initial state
\* the polarizations offered: every channel present, and every pair "a and b"
PowerSetChoices(pols) ==
    {<<p>> : p \in pols} \cup
    (IF Cardinality(pols) > 1
     THEN {<<x[1], "and", x[2]>> : x \in {y \in pols \X pols : y[1] # y[2]}}
     ELSE {})

Unzipped(n, crs, pols) ==
    {[path |-> [product |-> p, pre |-> <<>>, pol |-> c],
      typ |-> crs[p][1], zone |-> crs[p][2],
      srcs |-> {[product |-> p, pre |-> <<>>, pol |-> c]}]
        : p \in 1..n, c \in UNION {pols[q] : q \in 1..n}}

InitOver(txs, coords, auths, zones, ds) ==
    \E n \in 1..MaxProducts, tx \in txs :
    \E crs \in [1..n -> auths \X zones],
       pols \in [1..n -> ProductPolSets(tx)],
       pd \in [1..n -> ds] :
       /\ prodDate = pd
       /\ disk = {f \in Unzipped(n, crs, pols) : f.path.pol \in pols[f.path.product]}
       /\ disk0 = disk
       /\ polarization \in PowerSetChoices(UNION {pols[q] : q \in 1..n})
       /\ coord_choice \in coords
       /\ pc = "c44"
       /\ tiff_paths = <<>>
       /\ utm_zones = <<>>
       /\ utm_types = <<>>
       /\ predominant_utm = <<>>
       /\ reproject_indicies = <<>>
       /\ rk = 1
       /\ dates = <<>>
       /\ dup_date_batches = <<>>
       /\ polar_list = <<>>
       /\ mdone = {}
       /\ merge_in = {}
       /\ runs = 0
       /\ warpLog = <<>>
       /\ mergeLog = {}
       /\ messages = <<>>
       /\ tiffs = {}
       /\ rtc_exists = TRUE

\* the merge of frames: two zone codes, one authority, every date
Init == InitOver({"V"}, {"UTM"}, {"EPSG"}, {Z10, Z11}, Dates)

\* the coordinate codes: every code, both modes, one authority, one date
InitNorm == InitOver({"V"}, CoordChoices, {"EPSG"}, ZoneCodes, {1})
\* the authorities: a code under either authority, UTM mode, one date
InitAuth == InitOver({"V"}, {"UTM"}, Authorities, {Z10, Z4326}, {1})

\* the merge cells on their own: the state in which the reprojection cell
\* leaves the notebook when every tiff has the code 32610 (nothing to reproject)
InitMergeOver(txs) ==
    \E n \in 1..MaxProducts, tx \in txs :
    \E pols \in [1..n -> ProductPolSets(tx)], pd \in [1..n -> Dates] :
       /\ prodDate = pd
       /\ disk = {f \in Unzipped(n, [p \in 1..n |-> <<"EPSG", Z10>>], pols) :
                    f.path.pol \in pols[f.path.product]}
       /\ disk0 = disk
       /\ polarization \in PowerSetChoices(UNION {pols[q] : q \in 1..n})
       /\ coord_choice = "UTM"
       /\ pc = "c53"
       /\ tiff_paths = get_tiff_paths(regex, tiff_pth, disk)
       /\ utm_zones = [k \in DOMAIN tiff_paths |-> Z10]
       /\ utm_types = [k \in DOMAIN tiff_paths |-> "EPSG"]
       /\ predominant_utm = Z10
       /\ reproject_indicies = <<>>
       /\ rk = 1
       /\ dates = <<>>
       /\ dup_date_batches = <<>>
       /\ polar_list = <<>>
       /\ mdone = {}
       /\ merge_in = {}
       /\ runs = 0
       /\ warpLog = <<>>
       /\ mergeLog = {}
       /\ messages = <<>>
       /\ tiffs = {}
       /\ rtc_exists = TRUE

\* V-transmit products (VV, VV+VH)
InitMerge == InitMergeOver({"V"})
\* V- and H-transmit products (VV, VV+VH, HH, HH+HV)
InitVerify == InitMergeOver(TxLetters)

\* external commands that have failed so far
Failures ==
    Cardinality({i \in DOMAIN warpLog : ~warpLog[i].ok})
        + Cardinality({m \in mergeLog : ~m.ok})
\* outcomes an external command can have
Outcomes == IF Failures < MaxFailures THEN BOOLEAN ELSE {TRUE}

\* ------------------------------------------------ coordinate normalizer
\* cell "Collect and print the paths of the tiffs"
Collect ==
    /\ pc = "c44"
    /\ tiff_paths' = get_tiff_paths(regex, tiff_pth, disk)
    /\ pc' = "c47"
    /\ UNCHANGED <<prodDate, polarization, coord_choice, disk, disk0,
                   utm_zones, utm_types, predominant_utm, reproject_indicies,
                   rk, dates, dup_date_batches, polar_list, mdone,
                   merge_in, runs, warpLog, mergeLog, messages, tiffs,
                   rtc_exists>>

\* cell "Use gdal.Info ...": code and authority of the last ID of the WKT
GdalInfo ==
    /\ pc = "c47"
    /\ utm_zones' = [k \in DOMAIN tiff_paths |-> FileAt(disk, tiff_paths[k]).zone]
    /\ utm_types' = [k \in DOMAIN tiff_paths |-> FileAt(disk, tiff_paths[k]).typ]
    /\ pc' = "c49"
    /\ UNCHANGED <<prodDate, polarization, coord_choice, disk, disk0,
                   tiff_paths, predominant_utm, reproject_indicies,
                   rk, dates, dup_date_batches, polar_list, mdone,
                   merge_in, runs, warpLog, mergeLog, messages, tiffs,
                   rtc_exists>>

\* np.unique(values): the distinct values in ascending (string) order
RECURSIVE SortedSeq(_)
SortedSeq(S) ==
    IF S = {} THEN <<>>
    ELSE LET least == CHOOSE x \in S : \A y \in S \ {x} : StrLess(x, y)
         IN <<least>> \o SortedSeq(S \ {least})
np_unique(values) == SortedSeq(Range(values))
\* the counts np.unique(values, return_counts=True) returns with them
np_counts(values) ==
    [i \in DOMAIN np_unique(values) |-> Count(values, np_unique(values)[i])]
\* np.max(counts)
np_max(counts) == CHOOSE m \in Range(counts) : \A c \in Range(counts) : c <= m
\* as FirstOfMax, but the last of the most frequent values ([-1] for [0])
FirstOfMax_Last(values) ==
    LET u == np_unique(values)
        c == np_counts(values)
        a == {i \in DOMAIN c : c[i] = np_max(c)}
    IN  u[CHOOSE i \in a : \A j \in a : i >= j]

\* utm_unique[np.where(counts == np.max(counts))][0]
FirstOfMax(values) ==
    LET u == np_unique(values)
        c == np_counts(values)
        a == {i \in DOMAIN c : c[i] = np_max(c)}
    IN  u[CHOOSE i \in a : \A j \in a : i <= j]

\* as PredominantUtm, but with the branches of the mode test exchanged
PredominantUtm_Swapped(choice, zones) ==
    IF choice # "UTM" THEN FirstOfMax(zones) ELSE Z4326

\* as PredominantUtm, but without the mode test: always the most frequent code
PredominantUtm_NoModeTest(choice, zones) == FirstOfMax(zones)

\* the target code: the most frequent one, or 4326 in Lat/Long mode
PredominantUtm(choice, zones) ==
    IF choice = "UTM" THEN FirstOfMax(zones) ELSE Z4326

\* cell "Identify the most commonly used UTM Zone in the data"
Predominant ==
    /\ pc = "c49"
    /\ predominant_utm' = PredominantUtm(coord_choice, utm_zones)
    /\ pc' = "c51"
    /\ UNCHANGED <<prodDate, polarization, coord_choice, disk, disk0,
                   tiff_paths, utm_zones, utm_types, reproject_indicies,
                   rk, dates, dup_date_batches, polar_list, mdone,
                   merge_in, runs, warpLog, mergeLog, messages, tiffs,
                   rtc_exists>>

\* [i for i, j in enumerate(utm_zones) if j != predominant_utm]
RECURSIVE IndicesFrom(_, _, _)
IndicesFrom(zones, target, i) ==
    IF i > Len(zones) THEN <<>>
    ELSE (IF zones[i] # target THEN <<i>> ELSE <<>>)
            \o IndicesFrom(zones, target, i + 1)
\* as ReprojectIndices, but enumerating from the second tiff on
ReprojectIndices_SkipsFirst(zones, target) == IndicesFrom(zones, target, 2)

ReprojectIndices(zones, target) == IndicesFrom(zones, target, 1)

\* cell "Reproject all tiffs to the predominate UTM", up to its loop
ReprojectBegin ==
    /\ pc = "c51"
    /\ reproject_indicies' = ReprojectIndices(utm_zones, predominant_utm)
    /\ rk' = 1
    /\ pc' = IF ReprojectIndices(utm_zones, predominant_utm) = <<>>
             THEN "c53" ELSE "c51loop"
    /\ UNCHANGED <<prodDate, polarization, coord_choice, disk, disk0,
                   tiff_paths, utm_zones, utm_types, predominant_utm,
                   dates, dup_date_batches, polar_list, mdone,
                   merge_in, runs, warpLog, mergeLog, messages, tiffs,
                   rtc_exists>>

\* rtc_products/{product_name}/r{tiff_name}
WarpOutput(pth) == [pth EXCEPT !.pre = <<"r">> \o pth.pre]
\* a file written at a path replaces the file that was there
WriteFile(d, f) == {g \in d : g.path # f.path} \cup {f}
RemoveFile(d, pth) == {g \in d : g.path # pth}

\* gdalwarp -overwrite src out -s_srs typ:zone -t_srs EPSG:target, then rm src
WarpThenRm(d, src, target, ok) ==
    LET old == FileAt(d, src)
        new == [path |-> WarpOutput(src), typ |-> "EPSG", zone |-> target,
                srcs |-> old.srcs]
        warped == IF ok THEN WriteFile(d, new) ELSE d
    IN  RemoveFile(warped, src)

\* one iteration of the reprojection loop
ReprojectStep ==
    /\ pc = "c51loop"
    /\ rk <= Len(reproject_indicies)
    /\ \E ok \in Outcomes :
         LET k == reproject_indicies[rk]
         IN /\ disk' = WarpThenRm(disk, tiff_paths[k], predominant_utm, ok)
            /\ warpLog' = Append(warpLog,
                  [src |-> tiff_paths[k], s_typ |-> utm_types[k],
                   s_zone |-> utm_zones[k], t_srs |-> predominant_utm,
                   ok |-> ok])
    /\ rk' = rk + 1
    /\ pc' = IF rk = Len(reproject_indicies) THEN "c53" ELSE "c51loop"
    /\ UNCHANGED <<prodDate, polarization, coord_choice, disk0,
                   tiff_paths, utm_zones, utm_types, predominant_utm,
                   reproject_indicies, dates, dup_date_batches, polar_list,
                   mdone, merge_in, runs, mergeLog, messages, tiffs,
                   rtc_exists>>

\* cell "Update tiff_paths with any new filenames created during reprojection"
Refresh ==
    /\ pc = "c53"
    /\ tiff_paths' = get_tiff_paths(regex, tiff_pth, disk)
    /\ pc' = "c55"
    /\ UNCHANGED <<prodDate, polarization, coord_choice, disk, disk0,
                   utm_zones, utm_types, predominant_utm, reproject_indicies,
                   rk, dates, dup_date_batches, polar_list, mdone,
                   merge_in, runs, warpLog, mergeLog, messages, tiffs,
                   rtc_exists>>

\* ------------------------------------------------ duplicate-date merger
\* cell "Create a list aquisition dates" (unique_dates is set(dates))
CollectDates ==
    /\ pc = "c55"
    /\ runs < MaxRuns
    /\ dates' = get_dates(tiff_paths)
    /\ merge_in' = disk
    /\ runs' = runs + 1
    /\ pc' = "c59"
    /\ UNCHANGED <<prodDate, polarization, coord_choice, disk, disk0,
                   tiff_paths, utm_zones, utm_types, predominant_utm,
                   reproject_indicies, rk, dup_date_batches, polar_list,
                   mdone, warpLog, mergeLog, messages, tiffs, rtc_exists>>

unique_dates(ds) == Range(ds)

\* dup_date_batches: the dates that occur more than once in dates, each with an
\* empty path list; in dual-channel mode a copy of it for the second channel
DupDateBatches(ds, dbl) ==
    LET first == [d \in {x \in unique_dates(ds) : Count(ds, x) > 1} |-> <<>>]
    IN  IF dbl THEN <<first, first>> ELSE <<first>>

\* cell "Determine which dates have multiple frames"
FindDupDates ==
    /\ pc = "c59"
    /\ dup_date_batches' = DupDateBatches(dates, dbl_polar)
    /\ pc' = "c61"
    /\ UNCHANGED <<prodDate, polarization, coord_choice, disk, disk0,
                   tiff_paths, utm_zones, utm_types, predominant_utm,
                   reproject_indicies, rk, dates, polar_list, mdone,
                   merge_in, runs, warpLog, mergeLog, messages, tiffs,
                   rtc_exists>>

\* [polarization.split(' ')[0], polarization.split(' ')[2]] or [polarization]
PolarList(pol) ==
    IF PolarizationLen(pol) # 2 THEN <<pol[1], pol[3]>> ELSE <<pol[1]>>

\* the paths of one channel, (\w|/)*_{polar}.(tif|tiff)$ over the same glob
polar_paths(polar, d) ==
    get_tiff_paths([kind |-> "channel", pol |-> polar], tiff_pth, d)

\* the paths of polar_paths whose date is a key of the batch, appended per date
FillBatch(batch, paths) ==
    [d \in DOMAIN batch |->
        batch[d] \o SelectSeq(paths, LAMBDA p : DateOf(p) = d)]

\* the <<batch, date>> entries the merge loop iterates over
Entries(batches) ==
    {<<i, d>> : i \in DOMAIN batches, d \in UNION {DOMAIN batches[j] : j \in DOMAIN batches}}
        \cap {e \in (DOMAIN batches) \X Dates : e[2] \in DOMAIN batches[e[1]]}

\* cell "Update the key values in dup_paths with the string paths ..."
FillBatches ==
    /\ pc = "c61"
    /\ polar_list' = PolarList(polarization)
    /\ dup_date_batches' =
          [i \in DOMAIN dup_date_batches |->
              FillBatch(dup_date_batches[i],
                        polar_paths(PolarList(polarization)[i], disk))]
    /\ mdone' = {}
    /\ pc' = IF Entries(dup_date_batches) = {} THEN "c65" ELSE "c63"
    /\ UNCHANGED <<prodDate, polarization, coord_choice, disk, disk0,
                   tiff_paths, utm_zones, utm_types, predominant_utm,
                   reproject_indicies, rk, dates, merge_in, runs, warpLog,
                   mergeLog, messages, tiffs, rtc_exists>>

\* the output of a merge: "new" in front of the first listed tiff's name, in
\* that tiff's product directory
MergeOutput(inputs) == [inputs[1] EXCEPT !.pre = <<"new">> \o inputs[1].pre]

RECURSIVE RemoveAll(_, _)
RemoveAll(d, paths) ==
    IF paths = <<>> THEN d
    ELSE RemoveAll(IF Head(paths) \in PathsOn(d)
                   THEN RemoveFile(d, Head(paths)) ELSE d, Tail(paths))

\* as MergeThenRemove, but the removal loop skips the first input
MergeThenRemove_KeepsFirst(d, inputs, ok) ==
    LET present == {f \in d : f.path \in Range(inputs)}
        mosaic == [path |-> MergeOutput(inputs),
                   typ |-> FileAt(d, inputs[1]).typ,
                   zone |-> FileAt(d, inputs[1]).zone,
                   srcs |-> UNION {f.srcs : f \in present}]
        merged == IF ok THEN WriteFile(d, mosaic) ELSE d
    IN  RemoveAll(merged, Tail(inputs))

\* gdal_merge.py -o output inputs, then os.remove of every input that exists
MergeThenRemove(d, inputs, ok) ==
    LET present == {f \in d : f.path \in Range(inputs)}
        mosaic == [path |-> MergeOutput(inputs),
                   typ |-> FileAt(d, inputs[1]).typ,
                   zone |-> FileAt(d, inputs[1]).zone,
                   srcs |-> UNION {f.srcs : f \in present}]
        merged == IF ok THEN WriteFile(d, mosaic) ELSE d
    IN  RemoveAll(merged, inputs)

\* the batch the outer loop is in: the first with an unprocessed date
CurrentBatch ==
    CHOOSE i \in DOMAIN dup_date_batches :
        /\ \E d \in DOMAIN dup_date_batches[i] : <<i, d>> \notin mdone
        /\ \A j \in 1..(i - 1) :
              \A d \in DOMAIN dup_date_batches[j] : <<j, d>> \in mdone

\* one iteration of the merge loop, for a date of the current batch (a dict
\* built from a set: any order).  An entry without paths raises IndexError
\* where the output name is built, which ends the cell.
MergeStep ==
    /\ pc = "c63"
    /\ \E d \in DOMAIN dup_date_batches[CurrentBatch] :
         LET i == CurrentBatch
             inputs == dup_date_batches[i][d]
         IN /\ <<i, d>> \notin mdone
            /\ IF inputs = <<>>
               THEN /\ pc' = "crashed"
                    /\ UNCHANGED <<disk, mergeLog, mdone>>
               ELSE \E ok \in Outcomes :
                    /\ disk' = MergeThenRemove(disk, inputs, ok)
                    /\ mergeLog' = mergeLog \cup
                          {[run |-> runs, polar |-> polar_list[i], date |-> d,
                            inputs |-> inputs, output |-> MergeOutput(inputs),
                            ok |-> ok]}
                    /\ mdone' = mdone \cup {<<i, d>>}
                    /\ pc' = IF mdone \cup {<<i, d>>} = Entries(dup_date_batches)
                             THEN "c65" ELSE "c63"
    /\ UNCHANGED <<prodDate, polarization, coord_choice, disk0,
                   tiff_paths, utm_zones, utm_types, predominant_utm,
                   reproject_indicies, rk, dates, dup_date_batches,
                   polar_list, merge_in, runs, warpLog, messages, tiffs,
                   rtc_exists>>

\* ------------------------------------------------- verification, finalizer
\* tiff_pth.replace('V*', polar): only a pattern with the letter V holds 'V*'
ReplaceVStar(pat, polar) ==
    IF pat.suffix = "" /\ pat.letter = "V"
    THEN [letter |-> pat.letter, suffix |-> polar]
    ELSE pat

DuplicatesPresent == "Duplicate dates still present!"
NoDuplicates == "No duplicate dates are associated with polarization."

VerifyMessage(polar, d) ==
    LET polar_tiff_pth == ReplaceVStar(tiff_pth, polar)
        polar_tiff_paths == get_tiff_paths(regex, polar_tiff_pth, d)
        ds == get_dates(polar_tiff_paths)
    IN  IF Len(ds) # Cardinality(Range(ds))
        THEN DuplicatesPresent ELSE NoDuplicates

\* cell "Verify that all duplicate dates were resolved"
Verify ==
    /\ pc = "c65"
    /\ tiff_paths' = get_tiff_paths(regex, tiff_pth, disk)
    /\ messages' = [i \in DOMAIN polar_list |-> VerifyMessage(polar_list[i], disk)]
    /\ pc' = "c69"
    /\ UNCHANGED <<prodDate, polarization, coord_choice, disk, disk0,
                   utm_zones, utm_types, predominant_utm, reproject_indicies,
                   rk, dates, dup_date_batches, polar_list, mdone,
                   merge_in, runs, warpLog, mergeLog, tiffs, rtc_exists>>

\* the merge cells (from the tiff_paths update on) are run once more
RerunMerger ==
    /\ pc = "c69"
    /\ runs < MaxRuns
    /\ pc' = "c53"
    /\ UNCHANGED <<prodDate, polarization, coord_choice, disk, disk0,
                   tiff_paths, utm_zones, utm_types, predominant_utm,
                   reproject_indicies, rk, dates, dup_date_batches,
                   polar_list, mdone, merge_in, runs, warpLog, mergeLog,
                   messages, tiffs, rtc_exists>>

\* cell "Create a tiffs folder, move the tiffs into it, and delete the
\* rtc_products folder"
Finalize ==
    /\ pc = "c69"
    /\ tiffs' = {f \in disk : f.path \in Range(tiff_paths)}
    /\ disk' = {}
    /\ rtc_exists' = FALSE
    /\ pc' = "done"
    /\ UNCHANGED <<prodDate, polarization, coord_choice, disk0,
                   tiff_paths, utm_zones, utm_types, predominant_utm,
                   reproject_indicies, rk, dates, dup_date_batches,
                   polar_list, mdone, merge_in, runs, warpLog, mergeLog,
                   messages>>

Next ==
    \/ Collect
    \/ GdalInfo
    \/ Predominant
    \/ ReprojectBegin
    \/ ReprojectStep
    \/ Refresh
    \/ CollectDates
    \/ FindDupDates
    \/ FillBatches
    \/ MergeStep
    \/ Verify
    \/ RerunMerger
    \/ Finalize

\* the cells of the coordinate normalizer
NextNorm ==
    \/ Collect
    \/ GdalInfo
    \/ Predominant
    \/ ReprojectBegin
    \/ ReprojectStep
    \/ Refresh

\* the cells of the duplicate-date merger and after
NextMerge ==
    \/ Refresh
    \/ CollectDates
    \/ FindDupDates
    \/ FillBatches
    \/ MergeStep
    \/ Verify
    \/ RerunMerger
    \/ Finalize

\* the notebook from the tiff collection on
Spec == Init /\ [][Next]_vars
\* the normalizer over every code and mode; over both authorities
SpecNorm == InitNorm /\ [][NextNorm]_vars
SpecAuth == InitAuth /\ [][NextNorm]_vars
\* the merger over every assignment of dates and channels to the products
SpecMerge == InitMerge /\ [][NextMerge]_vars
\* the same over the products of either transmit polarization
SpecVerify == InitVerify /\ [][NextMerge]_vars

\* ------------------------------------------------------------ properties
\* the files of the selected polarization among the files d
Selected(d) == {f \in d : GlobMatch(tiff_pth, f.path) /\ RegexMatch(regex, f.path)}
\* the channels of the selected polarization
Channels == Range(PolarList(polarization))
\* the files of date dt and channel c among the files d
FilesOf(d, dt, c) == {f \in d : f.path.pol = c /\ DateOf(f.path) = dt}
\* the gdal_merge.py calls of the current run of the merge cells
MergesOfRun(r) == {m \in mergeLog : m.run = r}
\* the merge cells have finished and the verification has not started
MergerFinished == pc = "c65"
\* the reprojection cell has finished
NormalizerFinished == pc = "c53" /\ runs = 0 /\ predominant_utm # <<>>

C2_SingleFileDateUntouched ==
    (MergerFinished /\ Failures = 0) =>
        \A dt \in Dates :
            (\A c \in Channels : Cardinality(FilesOf(merge_in, dt, c)) = 1) =>
                /\ \A m \in MergesOfRun(runs) : m.date # dt
                /\ \A c \in Channels : FilesOf(merge_in, dt, c) \subseteq disk

\* C3, as claimed: a second run of the merge cells over the output of a first
\* run (no external command having failed) calls no gdal_merge.py and leaves
\* the files as they were.
C3_SecondRunIsNoOp ==
    (MergerFinished /\ runs = 2 /\ Failures = 0) =>
        /\ MergesOfRun(2) = {}
        /\ disk = merge_in

\* C4, as claimed: a file handed to gdalwarp is gone only if its reprojected
\* replacement is there, and is still there when gdalwarp failed.
C4_OriginalKeptUntilReplaced ==
    (pc \in {"c51loop", "c53"} /\ runs = 0) =>
        \A i \in DOMAIN warpLog :
            /\ ~warpLog[i].ok => warpLog[i].src \in PathsOn(disk)
            /\ warpLog[i].src \notin PathsOn(disk) =>
                    WarpOutput(warpLog[i].src) \in PathsOn(disk)

\* C5, as claimed: the inputs of a gdal_merge.py call that failed are all
\* still there.
C5_InputsKeptWhenMergeFails ==
    pc \in {"c63", "c65"} =>
        \A m \in MergesOfRun(runs) :
            ~m.ok => Range(m.inputs) \subseteq PathsOn(disk)

\* the coordinate system of a file: authority and code
Crs(f) == <<f.typ, f.zone>>
\* the files the normalizer starts from
Sel0 == Selected(disk0)
\* how many of them have a coordinate system, or a code
PairCount(c) == Cardinality({f \in Sel0 : Crs(f) = c})
CodeCount(z) == Cardinality({f \in Sel0 : f.zone = z})
\* the coordinate systems no other system occurs more often than
MajoritySystems ==
    {c \in {Crs(f) : f \in Sel0} : \A f \in Sel0 : PairCount(Crs(f)) <= PairCount(c)}
\* the gdalwarp calls made on a path
WarpCalls(pth) == {i \in DOMAIN warpLog : warpLog[i].src = pth}

C7_SingleSystemUntouched ==
    (NormalizerFinished /\ Cardinality({Crs(f) : f \in Sel0}) = 1) =>
        warpLog = <<>> /\ disk = disk0

\* C7, amended: when all files share one coordinate system, nothing is
\* reprojected and the files are as they were in UTM mode, and in Lat/Long
\* mode when the shared code is 4326.
C7_SingleSystemUntouchedInUtm ==
    (NormalizerFinished /\ Cardinality({Crs(f) : f \in Sel0}) = 1
        /\ (coord_choice = "UTM" \/ \A f \in Sel0 : f.zone = Z4326)) =>
        warpLog = <<>> /\ disk = disk0

\* UTM mode, three files of one coordinate system other than 4326
C7_Witness ==
    /\ NormalizerFinished
    /\ coord_choice = "UTM"
    /\ Cardinality(Sel0) >= 3
    /\ Cardinality({Crs(f) : f \in Sel0}) = 1
    /\ \A f \in Sel0 : f.zone # Z4326

\* the target code has just been chosen (no later cell assigns it)
TargetChosen == pc = "c51"

\* C8, as claimed: in UTM mode the target is the code of an (authority, code)
\* pair that no other pair occurs more often than.
C8_TargetIsMajorityPair ==
    (TargetChosen /\ coord_choice = "UTM") =>
        \E c \in MajoritySystems : c[2] = predominant_utm

\* C8, amended: in UTM mode the target is a code that no other code occurs more
\* often than, counted per code whatever the authority; of the codes that occur
\* as often it is the first in ascending string order, the order np.unique
\* enumerates them in.
C8_TargetIsFirstMostFrequentCode ==
    (TargetChosen /\ coord_choice = "UTM") =>
        /\ predominant_utm \in {f.zone : f \in Sel0}
        /\ \A f \in Sel0 :
              /\ CodeCount(f.zone) <= CodeCount(predominant_utm)
              /\ (CodeCount(f.zone) = CodeCount(predominant_utm)
                     /\ f.zone # predominant_utm)
                    => StrLess(predominant_utm, f.zone)

\* UTM mode, files under both authorities, codes 32610 and 4326 tie with two
\* files each, and the target is 32610, the first of the two as strings
C8_Witness ==
    /\ TargetChosen
    /\ coord_choice = "UTM"
    /\ {f.typ : f \in Sel0} = Authorities
    /\ CodeCount(Z10) = 2
    /\ CodeCount(Z4326) = 2
    /\ predominant_utm = Z10

\* C9: in Lat/Long mode the target code is 4326 whatever the codes of the
\* files; gdalwarp is called with target 4326 on every file whose code is not
\* 4326 (its replacement has code 4326 when the call succeeded), and on no file
\* whose code is 4326.
C9_LatLongTargetIs4326 ==
    ((TargetChosen \/ NormalizerFinished) /\ coord_choice = "Lat/Long") =>
        /\ predominant_utm = Z4326
        /\ NormalizerFinished =>
              \A f \in Sel0 :
                  /\ f.zone = Z4326 => WarpCalls(f.path) = {} /\ f \in disk
                  /\ f.zone # Z4326 =>
                        /\ WarpCalls(f.path) # {}
                        /\ \A i \in WarpCalls(f.path) :
                              /\ warpLog[i].t_srs = Z4326
                              /\ warpLog[i].ok =>
                                    \E g \in disk :
                                        /\ g.path = WarpOutput(f.path)
                                        /\ g.zone = Z4326

\* Lat/Long mode, most files share a UTM code, one file has code 4326, and
\* every gdalwarp call succeeded
C9_Witness ==
    /\ NormalizerFinished
    /\ coord_choice = "Lat/Long"
    /\ Failures = 0
    /\ \E f \in Sel0 : f.zone = Z4326 /\ CodeCount(Z4326) = 1
    /\ \E f \in Sel0 : f.zone = Z10 /\ CodeCount(Z10) > 1
    /\ Len(warpLog) = CodeCount(Z10)

\* C10, as claimed: once an external command has failed, no step changes the
\* files, calls another external command or moves the tiffs.
C10_HaltsAfterFailure ==
    [][Failures > 0 =>
          /\ disk' = disk
          /\ warpLog' = warpLog
          /\ mergeLog' = mergeLog
          /\ tiffs' = tiffs
          /\ rtc_exists' = rtc_exists]_vars

\* the finalizer has run
PipelineCompleted == pc = "done"

\* C11, as claimed: when the pipeline has completed, rtc_products is gone, the
\* tiffs directory holds exactly one file for each (date, selected channel)
\* that had a file among the unzipped products and none for any other pair,
\* and it holds no file of a channel that was not selected.
C11_TiffsOnePerDateAndChannel ==
    PipelineCompleted =>
        /\ ~rtc_exists
        /\ \A f \in tiffs : f.path.pol \in Channels
        /\ \A dt \in Dates, c \in Channels :
              Cardinality(FilesOf(tiffs, dt, c)) =
                  (IF FilesOf(disk0, dt, c) # {} THEN 1 ELSE 0)

\* the tiffs the reprojection cells pick when run on the files d
ReprojectedOn(d) ==
    LET paths == get_tiff_paths(regex, tiff_pth, d)
        zones == [k \in DOMAIN paths |-> FileAt(d, paths[k]).zone]
        target == PredominantUtm(coord_choice, zones)
    IN  {paths[k] : k \in Range(ReprojectIndices(zones, target))}
\* the batches the merge cells fill when run on the files d
BatchesOn(d) ==
    LET b == DupDateBatches(get_dates(get_tiff_paths(regex, tiff_pth, d)), dbl_polar)
    IN  [i \in DOMAIN b |->
            FillBatch(b[i], polar_paths(PolarList(polarization)[i], d))]
\* the input lists of the gdal_merge.py calls of batch i
MergeInputsOf(batches, i) == {batches[i][d] : d \in DOMAIN batches[i]} \ {<<>>}
\* the file sets that differ from d only in the other channels than c, with at
\* least one file of every selected channel left
OtherChannelVariants(d, c) ==
    {d \ X : X \in {Y \in SUBSET {f \in d : f.path.pol # c} :
                       \A o \in Channels : \E f \in d \ Y : f.path.pol = o}}
\* the reprojection cell has chosen its tiffs, the loop has not started
ReprojectionChosen == pc \in {"c51loop", "c53"} /\ runs = 0 /\ rk = 1 /\ warpLog = <<>>
\* the batches are filled, the merge loop has not started
BatchesFilled == pc = "c63" /\ mdone = {}

\* C12, as claimed: in dual-channel mode, the tiffs of a channel that are
\* reprojected, and the groups of tiffs of a channel that are merged, are the
\* same whatever files the other channel has.
C12_ChannelsIndependent ==
    dbl_polar =>
        \A i \in DOMAIN PolarList(polarization) :
            LET c == PolarList(polarization)[i]
            IN  /\ ReprojectionChosen =>
                      \A alt \in OtherChannelVariants(disk0, c) :
                          {p \in ReprojectedOn(alt) : p.pol = c} =
                              {tiff_paths[k] : k \in
                                  {j \in Range(reproject_indicies) :
                                      tiff_paths[j].pol = c}}
                /\ BatchesFilled =>
                      \A alt \in OtherChannelVariants(merge_in, c) :
                          MergeInputsOf(BatchesOn(alt), i) =
                              MergeInputsOf(dup_date_batches, i)

\* the dates S in ascending order
RECURSIVE AscendingSeq(_)
AscendingSeq(S) ==
    IF S = {} THEN <<>>
    ELSE LET least == CHOOSE x \in S : \A y \in S : x <= y
         IN <<least>> \o AscendingSeq(S \ {least})
\* the <<batch, date>> entries, batch by batch, each batch in ascending dates
RECURSIVE EntriesInOrder(_, _)
EntriesInOrder(batches, i) ==
    IF i > Len(batches) THEN <<>>
    ELSE [k \in 1..Cardinality(DOMAIN batches[i]) |->
              <<i, AscendingSeq(DOMAIN batches[i])[k]>>]
            \o EntriesInOrder(batches, i + 1)
\* the files the merge loop leaves when it takes the entries es in that order
\* and every gdal_merge.py call succeeds: it stops at an entry without paths
RECURSIVE MergeInOrder(_, _, _)
MergeInOrder(d, batches, es) ==
    IF es = <<>> THEN d
    ELSE LET inputs == batches[Head(es)[1]][Head(es)[2]]
         IN  IF inputs = <<>> THEN d
             ELSE MergeInOrder(MergeThenRemove(d, inputs, TRUE), batches, Tail(es))
\* the merge loop has ended, by finishing or by an error
MergeLoopEnded == pc \in {"c65", "crashed"}

\* C13, as claimed: whatever order the merge loop takes the dates in, it leaves
\* the same files (paths, and the tiffs each mosaic was built from): the files
\* it leaves when it takes the dates in ascending order (no external command
\* having failed).
C13_MergeOrderIrrelevant ==
    (MergeLoopEnded /\ Failures = 0) =>
        disk = MergeInOrder(merge_in, dup_date_batches,
                            EntriesInOrder(dup_date_batches, 1))

\* the verification cell has printed its messages
Verified == pc = "c69"

\* C14, as claimed: for every selectable polarization, the verification prints
\* "Duplicate dates still present!" for a channel exactly when some date has
\* more than one tiff of that channel left, and otherwise that no duplicate
\* dates are associated with the channel.
C14_MessageIffDuplicateLeft ==
    Verified =>
        \A i \in DOMAIN polar_list :
            messages[i] =
                (IF \E dt \in Dates : Cardinality(FilesOf(disk, dt, polar_list[i])) > 1
                 THEN DuplicatesPresent ELSE NoDuplicates)

\* C15, as claimed: every entry the merge loop processes lists at least one
\* path, all of the batch's channel, and the loop never stops with an error at
\* an entry without paths; in dual-channel mode too.
C15_BatchEntriesNonEmpty ==
    /\ pc # "crashed"
    /\ pc = "c63" =>
          \A e \in Entries(dup_date_batches) :
              /\ dup_date_batches[e[1]][e[2]] # <<>>
              /\ \A p \in Range(dup_date_batches[e[1]][e[2]]) :
                    p.pol = polar_list[e[1]]
====
